---- MODULE Spec2Model ----
(***************************************************************************)
(* Model of python_live_api.py: a WebSocket server (WebSocketServer) whose *)
(* per-connection handler coroutines share one SecurityCameraLiveAPI       *)
(* object, i.e. one stored upstream session handle and one set of          *)
(* connected clients.  The handlers run on one asyncio event loop: a       *)
(* handler runs without interruption from one await on network I/O to the  *)
(* next, so each action below is the code between two awaits.              *)
(***************************************************************************)
EXTENDS Integers, Sequences, FiniteSets, TLC

(* ------------------------------ bounds -------------------------------- *)
\* total number of client messages received, over all connections
MaxMsgs == 3
\* number of upstream sessions the service hands out
MaxSessions == 2
\* number of upstream frames one drain loop reads before the upstream
\* completes the turn, ends the stream or fails
MaxFrames == 1

\* The client connections: two, the least number whose handlers interleave
Conns == {1, 2}
SessionIds == 1..MaxSessions

(* ------------------------------ values -------------------------------- *)
\* self.session = None
None == 0
\* asyncio.get_event_loop().time(): a reading of the loop's monotonic clock
loop_time == 1

\* str(e) of the exceptions the media operations catch
AttrErrSend == "'NoneType' object has no attribute 'send_realtime_input'"
AttrErrRecv == "'NoneType' object has no attribute 'receive'"
PaddingErr == "Incorrect padding"
DataCharsErr == "Invalid base64-encoded string"
SendErr == "upstream send failed"
RecvErr == "upstream receive failed"
ErrorTexts ==
    {AttrErrSend, AttrErrRecv, PaddingErr, DataCharsErr, SendErr, RecvErr}

(* --------------------------- base64 (pure) ---------------------------- *)
\* A base64 text is a sequence of codes: 0..63 the alphabet, 64 the pad
\* "=", 65 a character outside the alphabet.  Bytes are 0..255.
Pad == 64

RECURSIVE EncodeGroups(_)
EncodeGroups(b) ==
    IF Len(b) = 0 THEN <<>>
    ELSE IF Len(b) = 1 THEN
        <<b[1] \div 4, (b[1] % 4) * 16, Pad, Pad>>
    ELSE IF Len(b) = 2 THEN
        <<b[1] \div 4, (b[1] % 4) * 16 + (b[2] \div 16), (b[2] % 16) * 4, Pad>>
    ELSE
        <<b[1] \div 4, (b[1] % 4) * 16 + (b[2] \div 16),
          (b[2] % 16) * 4 + (b[3] \div 64), b[3] % 64>>
        \o EncodeGroups(SubSeq(b, 4, Len(b)))

\* base64.b64encode(data).decode()
b64encode(b) == EncodeGroups(b)

\* base64.b64decode(s), non-strict: characters outside the alphabet are
\* skipped; a pad that completes a group ends the input; the data
\* characters must otherwise come in whole groups of four.  The value is
\* the text of the exception raised, "" when the decoding succeeds.
RECURSIVE DecodeFrom(_, _, _, _)
DecodeFrom(s, i, quad_pos, pads) ==
    IF i > Len(s) THEN
        IF quad_pos = 0 THEN ""
        ELSE IF quad_pos = 1 THEN DataCharsErr
        ELSE PaddingErr
    ELSE IF s[i] = Pad THEN
        IF quad_pos >= 2 /\ quad_pos + pads + 1 >= 4 THEN ""
        ELSE DecodeFrom(s, i + 1, quad_pos, pads + 1)
    ELSE IF s[i] < Pad THEN DecodeFrom(s, i + 1, (quad_pos + 1) % 4, 0)
    ELSE DecodeFrom(s, i + 1, quad_pos, pads)

b64decode(s) == DecodeFrom(s, 1, 0, 0)

(* ------------------------------ inputs -------------------------------- *)
\* "QUJD" and the truncated "QUJ"
GoodB64 == <<16, 20, 9, 3>>
BadB64 == <<16, 20, 9>>

\* The parsed JSON objects a client sends.  A field the object lacks is
\* absent from the record's domain.
Objects ==
    {[type |-> "video_frame", data |-> GoodB64],
     [type |-> "video_frame", data |-> BadB64],
     [type |-> "video_frame"],
     [type |-> "audio_chunk", data |-> GoodB64],
     [type |-> "audio_chunk", data |-> BadB64, mime_type |-> "audio/pcm"],
     [type |-> "start_session"],
     [type |-> "stop_session"],
     [type |-> "unknown_type"],
     [data |-> GoodB64]}

\* Raw messages: text that parses to an object, or text that does not
RawMessages ==
    {[parses |-> TRUE, obj |-> o] : o \in Objects}
        \cup {[parses |-> FALSE, obj |-> [type |-> "unknown_type"]]}

NoMsg == [type |-> "none"]

\* Upstream frames: response.data, the text parts of
\* response.server_content.model_turn, and server_content.turn_complete
Frames ==
    {[data |-> <<7>>, parts |-> <<"a", "">>, turn_complete |-> FALSE],
     [data |-> <<>>, parts |-> <<"b">>, turn_complete |-> TRUE],
     [data |-> <<>>, parts |-> <<>>, turn_complete |-> TRUE]}

(* ------------------------------ state --------------------------------- *)
VARIABLES
    session,            \* SecurityCameraLiveAPI.session: None or a session id
    connected_clients,  \* SecurityCameraLiveAPI.connected_clients
    nextSid,            \* upstream: number of sessions connect has returned
    closeCalls,         \* upstream: per session, calls of close() begun
    closed,             \* upstream: sessions whose close() has returned
    pc,                 \* per connection: the await its handler is parked at
    msg,                \* per connection: `data`, the message being handled
    cur,                \* per connection: the session object being awaited on
    frames,             \* per connection: frames read by the current drain
    response_text,      \* per connection: local response_text
    audio_response,     \* per connection: local audio_response
    result,             \* per connection: the envelope about to be sent
    call,               \* per connection: what the current operation did
    outbox,             \* per connection: number of envelopes sent to it
    hist,               \* per connection: number of requests received
    cause,              \* per connection: why the handler ended
    nmsgs               \* messages received so far, all connections

vars == <<session, connected_clients, nextSid, closeCalls, closed, pc, msg,
          cur, frames, response_text, audio_response, result, call, outbox,
          hist, cause, nmsgs>>

upstream == <<nextSid, closeCalls, closed>>
locals == <<cur, frames, response_text, audio_response>>

NoResult == [type |-> "none"]
NoAudio == <<>>
\* what the current operation has done so far
\*   op        the Session Manager operation in progress
\*   before    self.session when the operation was called
\*   implicit  whether the operation started a session implicitly, and how
\*             that went
\*   connects  upstream connects the operation has completed
\*   newSid    the session its connect returned
\*   mime      the MIME type of the blob a media operation sends
\*   handle    self.session as the try block of a media operation read it
\*   sentOn    the session the media was sent on
\*   failure   what failed in the try block of a media operation
\*   drain     how the drain loop was left: by the break ("complete") or by
\*             the end of the upstream stream ("ended")
NoCall == [op |-> "none", before |-> None, implicit |-> "no", connects |-> 0,
           newSid |-> None, mime |-> "", handle |-> None, sentOn |-> None,
           failure |-> "none", drain |-> "none"]

Init ==
    /\ session = None
    /\ connected_clients = {}
    /\ nextSid = 0
    /\ closeCalls = [s \in SessionIds |-> 0]
    /\ closed = {}
    /\ pc = [c \in Conns |-> "init"]
    /\ msg = [c \in Conns |-> NoMsg]
    /\ cur = [c \in Conns |-> None]
    /\ frames = [c \in Conns |-> <<>>]
    /\ response_text = [c \in Conns |-> ""]
    /\ audio_response = [c \in Conns |-> NoAudio]
    /\ result = [c \in Conns |-> NoResult]
    /\ call = [c \in Conns |-> NoCall]
    /\ outbox = [c \in Conns |-> 0]
    /\ hist = [c \in Conns |-> 0]
    /\ cause = [c \in Conns |-> "none"]
    /\ nmsgs = 0

(* ------------------------------ helpers ------------------------------- *)
Set(f, c, v) == [f EXCEPT ![c] = v]

\* The handler of c parks at await p
Goto(c, p, m, res, cl) ==
    /\ pc' = Set(pc, c, p)
    /\ msg' = Set(msg, c, m)
    /\ result' = Set(result, c, res)
    /\ call' = Set(call, c, cl)
    /\ UNCHANGED <<connected_clients, cause>>

\* the set is emptied instead
discard_all(clients, c) == {}

\* the finally clause is missing
discard_none(clients, c) == clients

\* finally: self.live_api.connected_clients.discard(websocket)
discard(clients, c) == clients \ {c}

\* An exception (or the end of the client's stream) leaves the async for
\* loop of handle_client: the except clauses log, the finally clause runs,
\* the handler returns
Raise(c, why) ==
    /\ pc' = Set(pc, c, "done")
    /\ cause' = Set(cause, c, why)
    /\ connected_clients' = discard(connected_clients, c)
    /\ msg' = Set(msg, c, NoMsg)
    /\ result' = Set(result, c, NoResult)
    /\ call' = Set(call, c, NoCall)

ClearLocals(c) ==
    /\ cur' = Set(cur, c, None)
    /\ frames' = Set(frames, c, <<>>)
    /\ response_text' = Set(response_text, c, "")
    /\ audio_response' = Set(audio_response, c, NoAudio)

\* a failure reported under the type of a success
ErrorResult_untyped(text) ==
    [type |-> "analysis", content |-> text, timestamp |-> loop_time]

\* the except clauses of the media operations
ErrorResult(text) ==
    [type |-> "error", content |-> text, timestamp |-> loop_time]

\* the return statements of the media operations
VideoResult(text) ==
    [type |-> "analysis", content |-> text, timestamp |-> loop_time]

\* the audio result is returned under the type of a video result
AudioResult_mistyped(text, audio) ==
    [type |-> "analysis", content |-> text, audio_response |-> audio,
     timestamp |-> loop_time]

AudioResult(text, audio) ==
    [type |-> "audio_analysis", content |-> text, audio_response |-> audio,
     timestamp |-> loop_time]

SuccessResult(op, text, audio) ==
    IF op = "video" THEN VideoResult(text) ELSE AudioResult(text, audio)

StatusEnvelope(status) == [type |-> "session_status", status |-> status]

\* the status is "connected" whatever start_live_session returned
StartStatus_always(success) == "connected"

\* "connected" if success else "error"
StartStatus(success) == IF success THEN "connected" ELSE "error"

\* data.get("mime_type", "audio/webm"); a video frame is "image/jpeg"
MimeType(op, data) ==
    IF op = "video" THEN "image/jpeg"
    ELSE IF "mime_type" \in DOMAIN data THEN data.mime_type
    ELSE "audio/webm"

(* ----------------------- Upstream Session Manager ---------------------- *)
\* The try block of a media operation up to its first await:
\* self.session.send_realtime_input is looked up, the payload is decoded,
\* the send is awaited.  sess is self.session at this point.
BeginSend(c, data, sess, cl) ==
    IF sess = None THEN
        /\ Goto(c, "reply", data, ErrorResult(AttrErrSend),
                [cl EXCEPT !.failure = "no_session"])
        /\ ClearLocals(c)
    ELSE IF b64decode(data.data) # "" THEN
        /\ Goto(c, "reply", data, ErrorResult(b64decode(data.data)),
                [cl EXCEPT !.handle = sess, !.failure = "decode"])
        /\ ClearLocals(c)
    ELSE
        /\ Goto(c, "send", data, NoResult,
                [cl EXCEPT !.handle = sess, !.sentOn = sess])
        /\ cur' = Set(cur, c, sess)
        /\ UNCHANGED <<frames, response_text, audio_response>>

\* process_video_frame / process_audio_chunk up to the first await:
\* without a stored session the operation first awaits start_live_session
BeginMedia(c, op, data) ==
    LET cl == [NoCall EXCEPT !.op = op, !.before = session,
                             !.mime = MimeType(op, data)] IN
    IF session = None THEN
        /\ Goto(c, "connect", data, NoResult, [cl EXCEPT !.implicit = "pending"])
        /\ ClearLocals(c)
    ELSE BeginSend(c, data, session, cl)

\* the start is not awaited and its status is never sent: the loop goes on
\* to the next message
BeginStart_unawaited(c, data) ==
    /\ UNCHANGED <<pc, msg, result, call, connected_clients, cause>>
    /\ ClearLocals(c)

\* start_live_session up to its await of client.aio.live.connect
BeginStart(c, data) ==
    /\ Goto(c, "connect", data, NoResult,
            [NoCall EXCEPT !.op = "start", !.before = session])
    /\ ClearLocals(c)

\* a failed start clears the stored handle
SessionAfterStart_reset(ok, old, new) == IF ok THEN new ELSE None

\* the handle connect returned is dropped
SessionAfterStart_unstored(ok, old, new) == old

\* self.session after start_live_session: the handle connect returned, or
\* what was stored before when connect raised
SessionAfterStart(ok, old, new) == IF ok THEN new ELSE old

\* close_session up to its await of self.session.close(); without a stored
\* session it returns at once and handle_client goes on to send the status
BeginClose(c, data) ==
    LET cl == [NoCall EXCEPT !.op = "close", !.before = session] IN
    IF session # None THEN
        /\ Goto(c, "close", data, NoResult, cl)
        /\ cur' = Set(cur, c, session)
        /\ closeCalls' = [closeCalls EXCEPT ![session] = @ + 1]
        /\ UNCHANGED <<frames, response_text, audio_response>>
    ELSE
        /\ Goto(c, "reply", data, StatusEnvelope("disconnected"), cl)
        /\ ClearLocals(c)
        /\ UNCHANGED closeCalls

\* self.session after self.session.close() has returned
SessionAfterClose(old) == None

\* the text a frame adds: its non-empty text parts, in order
RECURSIVE PartsText(_)
PartsText(parts) ==
    IF parts = <<>> THEN ""
    ELSE (IF Head(parts) # "" THEN Head(parts) ELSE "") \o PartsText(Tail(parts))

\* response_text = part.text: each text replaces what was accumulated
Accumulate_overwrite(acc, parts) ==
    IF PartsText(parts) # "" THEN PartsText(parts) ELSE acc

\* response_text += part.text, for the parts of one frame
Accumulate(acc, parts) == acc \o PartsText(parts)

\* the loop breaks after its first frame
TurnComplete_always(f) == TRUE

\* response.server_content and response.server_content.turn_complete
TurnComplete(f) == f.turn_complete

(* ------------------------- Connection Dispatcher ----------------------- *)
KnownTypes == {"video_frame", "audio_chunk", "start_session", "stop_session"}

\* how a raw message reads to the dispatcher
Kind(raw) ==
    IF ~raw.parses THEN "unparseable"
    ELSE IF "type" \notin DOMAIN raw.obj THEN "no_type"
    ELSE IF raw.obj.type \in {"video_frame", "audio_chunk"}
            /\ "data" \notin DOMAIN raw.obj THEN "no_data"
    ELSE raw.obj.type

\* an unknown type is answered by an error envelope
IgnoreMessage_reject(c, data) ==
    /\ Goto(c, "reply", data, ErrorResult("unknown type"), NoCall)
    /\ ClearLocals(c)
    /\ UNCHANGED closeCalls

\* No branch of the if/elif chain matches data["type"]: the loop body ends
\* and the loop awaits the next message
IgnoreMessage(c, data) ==
    UNCHANGED <<pc, msg, result, call, connected_clients, cause, locals,
                closeCalls>>

\* handle_client: the connection is registered, the loop awaits a message.
\* Connections are numbered in the order the server accepts them.
Accept(c) ==
    /\ pc[c] = "init"
    /\ \A d \in Conns : d < c => pc[d] # "init"
    /\ pc' = Set(pc, c, "loop")
    /\ connected_clients' = connected_clients \cup {c}
    /\ UNCHANGED <<session, upstream, msg, locals, result, call, outbox,
                   hist, cause, nmsgs>>

\* One pass of the loop body from the arrival of a message to the first
\* await: json.loads, the dispatch on data["type"]
HandleMessage(c, raw) ==
    /\ hist' = Set(hist, c, hist[c] + IF Kind(raw) \in KnownTypes THEN 1 ELSE 0)
    /\ nmsgs' = nmsgs + 1
    /\ UNCHANGED <<session, nextSid, closed, outbox>>
    /\ IF ~raw.parses THEN
            Raise(c, "JSONDecodeError") /\ ClearLocals(c) /\ UNCHANGED closeCalls
       ELSE LET data == raw.obj IN
        IF "type" \notin DOMAIN data THEN
            Raise(c, "KeyError") /\ ClearLocals(c) /\ UNCHANGED closeCalls
        ELSE IF data.type \in {"video_frame", "audio_chunk"} THEN
            IF "data" \notin DOMAIN data THEN
                Raise(c, "KeyError") /\ ClearLocals(c) /\ UNCHANGED closeCalls
            ELSE
                /\ BeginMedia(c, IF data.type = "video_frame" THEN "video"
                                 ELSE "audio", data)
                /\ UNCHANGED closeCalls
        ELSE IF data.type = "start_session" THEN
            BeginStart(c, data) /\ UNCHANGED closeCalls
        ELSE IF data.type = "stop_session" THEN
            BeginClose(c, data)
        ELSE IgnoreMessage(c, data)

Recv(c) ==
    /\ pc[c] = "loop"
    /\ nmsgs < MaxMsgs
    /\ \E raw \in RawMessages : HandleMessage(c, raw)

\* client.aio.live.connect returns a new session or raises
ConnectDone(c) ==
    /\ pc[c] = "connect"
    /\ \E ok \in BOOLEAN :
        /\ ok => nextSid < MaxSessions
        /\ LET new == nextSid + 1
               sess == SessionAfterStart(ok, session, new)
               cl == [call[c] EXCEPT !.connects = @ + 1,
                                      !.newSid = IF ok THEN new ELSE None,
                                      !.implicit = IF @ = "pending"
                                                   THEN (IF ok THEN "ok" ELSE "failed")
                                                   ELSE @]
           IN  /\ session' = sess
               /\ nextSid' = IF ok THEN new ELSE nextSid
               /\ IF call[c].op = "start" THEN
                      /\ Goto(c, "reply", msg[c],
                              StatusEnvelope(StartStatus(ok)), cl)
                      /\ ClearLocals(c)
                  ELSE BeginSend(c, msg[c], sess, cl)
    /\ UNCHANGED <<closeCalls, closed, outbox, hist, nmsgs>>

\* session.send_realtime_input returns or raises; on return the drain
\* loop starts on self.session.receive()
SendDone(c) ==
    /\ pc[c] = "send"
    /\ \E ok \in BOOLEAN :
        IF ~ok THEN
            /\ Goto(c, "reply", msg[c], ErrorResult(SendErr),
                    [call[c] EXCEPT !.failure = "send"])
            /\ ClearLocals(c)
        ELSE IF session = None THEN
            /\ Goto(c, "reply", msg[c], ErrorResult(AttrErrRecv),
                    [call[c] EXCEPT !.failure = "no_session_recv"])
            /\ ClearLocals(c)
        ELSE
            /\ Goto(c, "recv", msg[c], NoResult, call[c])
            /\ cur' = Set(cur, c, session)
            /\ frames' = Set(frames, c, <<>>)
            /\ response_text' = Set(response_text, c, "")
            /\ audio_response' = Set(audio_response, c, NoAudio)
    /\ UNCHANGED <<session, upstream, outbox, hist, nmsgs>>

\* One iteration of the drain loop: a frame arrives
RecvFrame(c) ==
    /\ pc[c] = "recv"
    /\ \E f \in Frames :
        /\ Len(frames[c]) < MaxFrames \/ f.turn_complete
        /\ LET text == Accumulate(response_text[c], f.parts)
               audio == IF call[c].op = "audio" /\ f.data # <<>>
                        THEN b64encode(f.data) ELSE audio_response[c]
           IN  /\ frames' = Set(frames, c, Append(frames[c], f))
               /\ response_text' = Set(response_text, c, text)
               /\ audio_response' = Set(audio_response, c, audio)
               /\ IF TurnComplete(f) THEN
                      Goto(c, "reply", msg[c],
                           SuccessResult(call[c].op, text, audio),
                           [call[c] EXCEPT !.drain = "complete"])
                  ELSE UNCHANGED <<pc, msg, result, call, connected_clients, cause>>
    /\ UNCHANGED <<session, upstream, cur, outbox, hist, nmsgs>>

\* The upstream stream ends: the async for loop is left without a break
RecvEnd(c) ==
    /\ pc[c] = "recv"
    /\ Goto(c, "reply", msg[c],
            SuccessResult(call[c].op, response_text[c], audio_response[c]),
            [call[c] EXCEPT !.drain = "ended"])
    /\ UNCHANGED <<session, upstream, locals, outbox, hist, nmsgs>>

\* the text accumulated so far is put before the failure description
DrainError_partial(text, err) == ErrorResult(text \o err)

\* except Exception as e, reached from the drain loop: str(e) alone
DrainError(text, err) == ErrorResult(err)

\* The upstream receive raises
RecvFail(c) ==
    /\ pc[c] = "recv"
    /\ Goto(c, "reply", msg[c], DrainError(response_text[c], RecvErr),
            [call[c] EXCEPT !.failure = "recv"])
    /\ UNCHANGED <<session, upstream, locals, outbox, hist, nmsgs>>

\* self.session.close() returns, or raises into handle_client
CloseDone(c) ==
    /\ pc[c] = "close"
    /\ \E ok \in BOOLEAN :
        IF ok THEN
            /\ session' = SessionAfterClose(session)
            /\ closed' = closed \cup {cur[c]}
            /\ Goto(c, "reply", msg[c], StatusEnvelope("disconnected"), call[c])
        ELSE
            /\ Raise(c, "UpstreamError")
            /\ UNCHANGED <<session, closed>>
    /\ ClearLocals(c)
    /\ UNCHANGED <<nextSid, closeCalls, outbox, hist, nmsgs>>

\* websocket.send returns, or raises ConnectionClosed
Reply(c) ==
    /\ pc[c] = "reply"
    /\ \E ok \in BOOLEAN :
        IF ok THEN
            /\ outbox' = Set(outbox, c, outbox[c] + 1)
            /\ Goto(c, "loop", NoMsg, NoResult, NoCall)
        ELSE
            /\ Raise(c, "ConnectionClosed")
            /\ UNCHANGED outbox
    /\ ClearLocals(c)
    /\ UNCHANGED <<session, upstream, hist, nmsgs>>

\* The client closes the connection while the loop awaits a message
ClientClose(c) ==
    /\ pc[c] = "loop"
    /\ Raise(c, "ConnectionClosed")
    /\ UNCHANGED <<session, upstream, locals, outbox, hist, nmsgs>>

Next ==
    \E c \in Conns :
        \/ Accept(c)
        \/ Recv(c)
        \/ ConnectDone(c)
        \/ SendDone(c)
        \/ RecvFrame(c)
        \/ RecvEnd(c)
        \/ RecvFail(c)
        \/ CloseDone(c)
        \/ Reply(c)
        \/ ClientClose(c)

Spec == Init /\ [][Next]_vars

(* ------------------------------- claims ------------------------------- *)
MediaOps == {"video", "audio"}

\* C1: every request of a known type is answered by exactly one envelope:
\* whenever the handler of a connection is between messages, or has ended
\* for a reason other than the client having closed the connection, it has
\* sent as many envelopes as it has received well-formed messages of the
\* four known types.
C1_OneEnvelopePerRequest ==
    \A c \in Conns :
        (pc[c] \in {"loop", "done"} /\ cause[c] # "ConnectionClosed")
            => outbox[c] = hist[c]

C3_NoUpstreamFaultInDispatcher ==
    \A c \in Conns : cause[c] # "UpstreamError"

\* C4: at most one upstream session is opened and not yet closed.
C4_AtMostOneSession ==
    nextSid - Cardinality(closed) <= 1

\* C5: no two requests are at the same time between sending media on a
\* session and the end of its drain.
C5_SerializedAccess ==
    \A c, d \in Conns :
        (c # d /\ pc[c] \in {"send", "recv"} /\ pc[d] \in {"send", "recv"})
            => cur[c] # cur[d]

\* C6: a StartSession that finds a stored session makes no upstream connect
\* and leaves that session stored.
C6_SecondStartReuses ==
    \A c \in Conns :
        (call[c].op = "start" /\ call[c].before # None)
            => /\ pc[c] # "connect"
               /\ call[c].connects = 0
               /\ call[c].newSid = None

\* C7: a media operation that finds no stored session (the state a completed
\* CloseSession leaves) makes exactly one upstream connect before it sends;
\* when the connect succeeds the media is sent on the session that connect
\* returned, the operation never fails for want of a session to send on,
\* and it returns an error only when the decoding, the send or the drain
\* failed.
C7_ImplicitRestart ==
    \A c \in Conns :
        (call[c].op \in MediaOps /\ call[c].before = None)
            => /\ call[c].connects = (IF pc[c] = "connect" THEN 0 ELSE 1)
               /\ call[c].implicit = "ok" =>
                    /\ call[c].failure # "no_session"
                    /\ call[c].newSid # None
                    /\ call[c].failure # "decode" => call[c].sentOn = call[c].newSid
                    /\ pc[c] \in {"send", "recv"} => cur[c] # None
                    /\ (pc[c] = "reply" /\ call[c].failure = "none")
                            => result[c].type \in {"analysis", "audio_analysis"}

\* C7 witness: after a session has been closed, a video frame has connected
\* anew, was sent on the new session and got an analysis
C7_Witness ==
    \E c \in Conns :
        /\ closed # {}
        /\ pc[c] = "reply"
        /\ call[c].op = "video"
        /\ call[c].before = None
        /\ call[c].implicit = "ok"
        /\ call[c].sentOn = call[c].newSid
        /\ call[c].sentOn \notin closed
        /\ result[c].type = "analysis"

\* C8: a CloseSession that finds a session calls the upstream close once and
\* ends with the handle unset; one that finds none calls nothing and changes
\* nothing.
C8_CloseIdempotent ==
    [][\A c \in Conns :
        /\ (pc[c] = "close" /\ pc'[c] # "close")
                => (session' = None /\ closeCalls'[cur[c]] = 1)
        /\ (pc[c] = "loop" /\ pc'[c] = "reply" /\ call'[c].op = "close")
                => UNCHANGED <<session, nextSid, closeCalls, closed>>]_vars

\* C9: the step that ends one connection's handler leaves the stored
\* session, every other connection's membership in the connected clients
\* and every other handler's position and request as they were.
C9_DisconnectIsolated ==
    [][\A c \in Conns :
        (pc[c] # "done" /\ pc'[c] = "done")
            => /\ session' = session
               /\ \A d \in Conns \ {c} :
                    /\ (d \in connected_clients') = (d \in connected_clients)
                    /\ pc'[d] = pc[d]
                    /\ msg'[d] = msg[d]
                    /\ result'[d] = result[d]]_vars

\* C9 witness: one handler was ended by an error while the other connection
\* stays registered, has been answered once and has the answer to its
\* second request ready
C9_Witness ==
    \E c, d \in Conns :
        /\ c # d
        /\ pc[c] = "done"
        /\ cause[c] = "UpstreamError"
        /\ d \in connected_clients
        /\ pc[d] = "reply"
        /\ hist[d] = 2
        /\ outbox[d] = 1

\* C10: a malformed message does not end the handling loop: the connection
\* stays registered.
C10_MalformedKeepsLoop ==
    \A c \in Conns :
        cause[c] \in {"JSONDecodeError", "KeyError"}
            => (c \in connected_clients /\ pc[c] # "done")

Busy == {"connect", "send", "recv", "close", "reply"}

\* C11: a connection is in the connected clients exactly while its handler
\* is in its loop: it is not there before the accept, it is there from the
\* accept (before any message is handled) and it is gone once the loop has
\* ended, whatever ended it.
C11_RegisteredWhileRunning ==
    \A c \in Conns :
        /\ (c \in connected_clients) = (pc[c] \in Busy \cup {"loop"})
        /\ pc[c] = "init" => (hist[c] = 0 /\ outbox[c] = 0)
        /\ (pc[c] = "done") = (cause[c] # "none")

\* C11 witness: one loop was ended by a malformed message and its connection
\* is gone from the set, while the other connection is in the set, mid-request
C11_Witness ==
    \E c, d \in Conns :
        /\ pc[c] = "done"
        /\ cause[c] = "KeyError"
        /\ c \notin connected_clients
        /\ pc[d] = "recv"
        /\ d \in connected_clients

\* the envelope types that answer a message type
AnswerTypes(type) ==
    IF type = "video_frame" THEN {"analysis", "error"}
    ELSE IF type = "audio_chunk" THEN {"audio_analysis", "error"}
    ELSE {"session_status"}

\* C12: a connection's messages are handled one at a time, in arrival order:
\* the loop takes a message only when every earlier request has been
\* answered, at most one request is unanswered at any time, and the envelope
\* about to be sent answers the request in progress.
C12_OneAtATime ==
    \A c \in Conns :
        /\ pc[c] \in {"init", "loop"} => outbox[c] = hist[c]
        /\ pc[c] \in Busy => (hist[c] = outbox[c] + 1 /\ msg[c].type \in KnownTypes)
        /\ pc[c] = "done" => hist[c] - outbox[c] \in {0, 1}
        /\ pc[c] = "reply" => result[c].type \in AnswerTypes(msg[c].type)

\* C12 witness: the second request of a connection is in progress and its
\* first has been answered
C12_Witness ==
    \E c \in Conns :
        /\ pc[c] = "reply"
        /\ hist[c] = 2
        /\ outbox[c] = 1
        /\ msg[c].type = "video_frame"
        /\ result[c].type = "analysis"

\* C13: a start_session request makes exactly one upstream connect and is
\* answered by a session_status whose status is "connected" exactly when
\* that connect returned a session and "error" otherwise; the handler that
\* has sent an "error" status is back in its loop, its connection registered.
C13_StartAnswered ==
    /\ [](\A c \in Conns :
            (call[c].op = "start" /\ pc[c] \in Busy)
                => /\ pc[c] \in {"connect", "reply"}
                   /\ call[c].connects = (IF pc[c] = "connect" THEN 0 ELSE 1)
                   /\ pc[c] = "reply" =>
                        /\ result[c].type = "session_status"
                        /\ result[c].status \in {"connected", "error"}
                        /\ (result[c].status = "connected")
                                = (call[c].newSid # None)
                        /\ c \in connected_clients)
    /\ [][\A c \in Conns :
            (/\ pc[c] = "reply"
             /\ call[c].op = "start"
             /\ result[c].status = "error"
             /\ outbox'[c] = outbox[c] + 1)
                => (pc'[c] = "loop" /\ c \in connected_clients')]_vars

\* C13 witness: a start_session whose one connect failed has its "error"
\* status ready, and the same connection has been answered before
C13_Witness ==
    \E c \in Conns :
        /\ pc[c] = "reply"
        /\ call[c].op = "start"
        /\ call[c].connects = 1
        /\ call[c].newSid = None
        /\ result[c] = StatusEnvelope("error")
        /\ outbox[c] = 1

\* C14 as stated: for a payload that decodes, the result has the type of the
\* requested operation and a timestamp, whatever the upstream does.
C14_TypeMatchesOperation ==
    \A c \in Conns :
        (/\ pc[c] = "reply"
         /\ call[c].op \in MediaOps
         /\ b64decode(msg[c].data) = "")
            => /\ result[c].timestamp = loop_time
               /\ result[c].type =
                    (IF call[c].op = "video" THEN "analysis" ELSE "audio_analysis")

\* C14 as amended: for a payload that decodes, the result always carries a
\* timestamp; its type is that of the requested operation when nothing
\* failed, and "error" exactly when no session was stored, the send failed
\* or the receive failed.
C14_TypeMatchesOrError ==
    \A c \in Conns :
        (/\ pc[c] = "reply"
         /\ call[c].op \in MediaOps
         /\ b64decode(msg[c].data) = "")
            => /\ "timestamp" \in DOMAIN result[c]
               /\ result[c].timestamp = loop_time
               /\ call[c].failure \in
                    {"none", "no_session", "send", "no_session_recv", "recv"}
               /\ result[c].type =
                    (IF call[c].failure # "none" THEN "error"
                     ELSE IF call[c].op = "video" THEN "analysis"
                     ELSE "audio_analysis")

\* C14 witness: an audio chunk that decodes has been drained to the end of
\* the turn and its audio_analysis result is ready
C14_Witness ==
    \E c \in Conns :
        /\ pc[c] = "reply"
        /\ call[c].op = "audio"
        /\ b64decode(msg[c].data) = ""
        /\ result[c].type = "audio_analysis"
        /\ result[c].timestamp = loop_time
        /\ Len(frames[c]) > 0

\* all the text parts of a sequence of frames, in order
RECURSIVE AllParts(_)
AllParts(fs) == IF fs = <<>> THEN <<>> ELSE Head(fs).parts \o AllParts(Tail(fs))

\* the concatenation of a sequence of texts
RECURSIVE Join(_)
Join(texts) == IF texts = <<>> THEN "" ELSE Head(texts) \o Join(Tail(texts))

IsSuccess(res) == res.type \in {"analysis", "audio_analysis"}

\* C15 as stated: the content of a success result is the concatenation, in
\* order, of all text parts of the frames the call has read, no frame is
\* read after a turn-complete one, and the last frame read before a success
\* result is turn-complete.
C15_OneTurnPerCall ==
    \A c \in Conns :
        /\ \A i \in 1..(Len(frames[c]) - 1) : ~frames[c][i].turn_complete
        /\ pc[c] = "recv" => \A i \in 1..Len(frames[c]) : ~frames[c][i].turn_complete
        /\ (pc[c] = "reply" /\ IsSuccess(result[c]))
            => /\ result[c].content = Join(AllParts(frames[c]))
               /\ Len(frames[c]) > 0
               /\ frames[c][Len(frames[c])].turn_complete

\* C15 as amended: the same, except that a success result is also returned
\* when the upstream stream ends before any turn-complete frame, with the
\* text of the frames read until then.
C15_OneTurnOrStreamEnd ==
    \A c \in Conns :
        /\ \A i \in 1..(Len(frames[c]) - 1) : ~frames[c][i].turn_complete
        /\ pc[c] = "recv" => \A i \in 1..Len(frames[c]) : ~frames[c][i].turn_complete
        /\ (pc[c] = "reply" /\ IsSuccess(result[c]))
            => /\ result[c].content = Join(AllParts(frames[c]))
               /\ \/ /\ call[c].drain = "complete"
                     /\ Len(frames[c]) > 0
                     /\ frames[c][Len(frames[c])].turn_complete
                  \/ /\ call[c].drain = "ended"
                     /\ \A i \in 1..Len(frames[c]) : ~frames[c][i].turn_complete

\* C15 witness: a drain has read a frame with text, then the turn-complete
\* frame with more text, and returns both texts in order
C15_Witness ==
    \E c \in Conns :
        /\ pc[c] = "reply"
        /\ IsSuccess(result[c])
        /\ Len(frames[c]) = 2
        /\ frames[c][2].turn_complete
        /\ result[c].content = "ab"

\* C16: when the receive fails after text (or audio) has been accumulated,
\* the result is an error result whose content is the failure description
\* alone, without an audio payload.
C16_PartialTextDiscarded ==
    \A c \in Conns :
        (pc[c] = "reply" /\ call[c].failure = "recv")
            => /\ result[c].type = "error"
               /\ result[c].content = RecvErr
               /\ DOMAIN result[c] = {"type", "content", "timestamp"}

\* C16 witness: the receive has failed with text and audio accumulated
C16_Witness ==
    \E c \in Conns :
        /\ pc[c] = "reply"
        /\ call[c].failure = "recv"
        /\ response_text[c] = "a"
        /\ audio_response[c] # NoAudio
        /\ result[c] = ErrorResult(RecvErr)

\* The upstream answers every receive in the end: with a frame, with the end
\* of the stream or with a failure. Nothing else is assumed of it, and
\* nothing of the clients.
FairSpec ==
    Spec /\ \A c \in Conns : WF_vars(RecvFrame(c) \/ RecvEnd(c) \/ RecvFail(c))

\* the drain of c is left in this step
LeavesDrain(c) == pc[c] = "recv" /\ pc'[c] # "recv"

\* C17: the drain is left only with a result, and only because a
\* turn-complete frame was read, the stream ended or the receive failed (no
\* timeout, no cancellation); while it lasts the handler takes no other
\* message, and a handler of another connection that awaits its upstream or
\* its client is not held back; when the upstream does one of the three, the
\* drain ends with a result.
C17_DrainEndsOnlyWithUpstream ==
    /\ [][\A c \in Conns :
            /\ LeavesDrain(c) =>
                /\ pc'[c] = "reply"
                /\ result'[c] # NoResult
                /\ \/ /\ Len(frames'[c]) = Len(frames[c]) + 1
                      /\ frames'[c][Len(frames'[c])].turn_complete
                   \/ /\ frames'[c] = frames[c]
                      /\ call'[c].drain = "ended"
                   \/ /\ frames'[c] = frames[c]
                      /\ call'[c].failure = "recv"
            /\ pc[c] = "recv" => msg'[c] = msg[c] /\ hist'[c] = hist[c]]_vars
    /\ [](\A c \in Conns : \A d \in Conns \ {c} :
            pc[c] = "recv" =>
                /\ pc[d] = "reply" => ENABLED Reply(d)
                /\ pc[d] = "recv" => ENABLED RecvEnd(d)
                /\ pc[d] = "send" => ENABLED SendDone(d)
                /\ pc[d] = "close" => ENABLED CloseDone(d)
                /\ pc[d] = "loop" => ENABLED ClientClose(d))
    /\ \A c \in Conns : (pc[c] = "recv") ~> (pc[c] = "reply")

\* C17 witness: connection c is still in its drain, with a frame read that
\* does not complete the turn, while another connection has been answered
\* and holds the result of a later request on the same session
C17_Witness ==
    \E c \in Conns : \E d \in Conns \ {c} :
        /\ pc[c] = "recv"
        /\ Len(frames[c]) = 1
        /\ ~frames[c][1].turn_complete
        /\ outbox[d] = 1
        /\ pc[d] = "reply"
        /\ IsSuccess(result[d])
        /\ call[d].sentOn = cur[c]

\* a well-formed message whose type is none of the four known ones
UnknownType(raw) ==
    /\ raw.parses
    /\ "type" \in DOMAIN raw.obj
    /\ raw.obj.type \notin KnownTypes

\* C18: handling a well-formed message of an unknown type starts no session
\* operation, leaves the session handle, the upstream and the set of
\* connected clients as they were, sends no envelope, and leaves the handler
\* in its loop, awaiting the next message.
C18_UnknownTypeIsNoOp ==
    [][\A c \in Conns : \A raw \in RawMessages :
          (pc[c] = "loop" /\ UnknownType(raw) /\ HandleMessage(c, raw))
              => /\ UNCHANGED <<session, upstream, connected_clients, outbox,
                                call, result, cause, locals>>
                 /\ pc'[c] = "loop"
                 /\ call[c] = NoCall]_vars

\* C18 witness: the first connection has received two messages, the first
\* of an unknown type and unanswered, the second a request now in progress
C18_Witness ==
    /\ nmsgs = 2
    /\ pc[2] = "init"
    /\ hist[1] = 1
    /\ outbox[1] = 0
    /\ pc[1] = "connect"

\* connection c's connect has returned a session in this step
StartSucceeds(c) ==
    pc[c] = "connect" /\ pc'[c] # "connect" /\ call'[c].newSid # None

\* connection c's connect has raised in this step
StartFails(c) ==
    pc[c] = "connect" /\ pc'[c] # "connect" /\ call'[c].newSid = None

\* connection c's media operation returns an error result in this step
MediaFails(c) ==
    /\ pc[c] # "reply"
    /\ pc'[c] = "reply"
    /\ call'[c].op \in MediaOps
    /\ result'[c].type = "error"

\* C19: the stored handle changes only when a connect succeeds (it becomes
\* the new session) or when a close completes (it becomes unset); a failed
\* start and a media operation that returns an error result leave it as it
\* was, and a media message that arrives while a session is stored is sent
\* on that session without a connect.
C19_HandleChangesOnlyOnStartOrClose ==
    [][/\ session' # session =>
            \E c \in Conns :
                \/ StartSucceeds(c) /\ session' = call'[c].newSid
                \/ pc[c] = "close" /\ pc'[c] = "reply" /\ session' = None
       /\ \A c \in Conns :
            /\ StartFails(c) => session' = session
            /\ (MediaFails(c) /\ ~StartSucceeds(c)) => session' = session
            /\ (pc[c] = "loop" /\ session # None /\ call'[c].op \in MediaOps)
                => /\ pc'[c] # "connect"
                   /\ call'[c].connects = 0
                   /\ call'[c].handle = session]_vars

\* C19 witness: a start has failed while a session was stored, another
\* connection's media operation on that session has returned an error
\* result, and the session is still the stored one
C19_Witness ==
    \E c \in Conns : \E d \in Conns \ {c} :
        /\ pc[c] = "reply"
        /\ call[c].op = "start"
        /\ call[c].before # None
        /\ call[c].newSid = None
        /\ pc[d] = "reply"
        /\ call[d].failure = "recv"
        /\ call[d].connects = 0
        /\ session = call[c].before
        /\ session = call[d].sentOn

\* C20: no send is issued on, and no frame is read from, a session on which
\* close has been called, and a close that completes clears only the handle
\* of the session it closed.
C20_NoUseAfterClose ==
    [][\A c \in Conns :
          /\ (pc[c] # "send" /\ pc'[c] = "send") => closeCalls[cur'[c]] = 0
          /\ (pc[c] = "recv" /\ frames'[c] # frames[c]) => closeCalls[cur[c]] = 0
          /\ (pc[c] = "close" /\ pc'[c] = "reply" /\ session # session')
                => session = cur[c]]_vars

====
